---- MODULE Spec2Model ----
(***************************************************************************)
(* feedpet: the pet record store (Pet, PetExtraPhoto), the pet form        *)
(* (PetForm), the create / edit / delete views with their permission       *)
(* mixins, the admin approve action and the staff report.                  *)
(*                                                                         *)
(* Text (names, slugs, file names, query parameters) is a sequence of      *)
(* one-character strings, so that lower(), upper(), slugify() and          *)
(* split(".") are computed character by character.                         *)
(***************************************************************************)
EXTENDS Integers, Sequences, FiniteSets, TLC

VARIABLES pets, fotos, nextPetId, nextFotoId, usuarios, last, reqs, session

vars == <<pets, fotos, nextPetId, nextFotoId, usuarios, last, reqs, session>>
store == <<pets, fotos>>

NULL == "NULL"
\* No file: an empty file input, an empty FileField.
NoFile == [name |-> <<>>, size |-> 0]

\* ---------------------------------------------------------------- bounds
MaxPets == 2
MaxFotos == 8
MaxPetsSlug == 3

\* The configured gallery maximum (adocoes/constants.py), a small value
\* standing for it.
MAX_ADDITIONAL_PHOTOS == 3
\* The most gallery files one submission carries: one more than is accepted.
MaxNovas == MAX_ADDITIONAL_PHOTOS + 1

\* ------------------------------------------------- adocoes/constants.py
MAX_ADDITIONAL_IMAGE_SIZE_MB == 5
MAX_VIDEO_SIZE_MB == 50
ALLOWED_IMAGE_EXTENSIONS == {<<"j","p","g">>, <<"j","p","e","g">>, <<"p","n","g">>, <<"w","e","b","p">>}
ALLOWED_VIDEO_EXTENSIONS == {<<"m","p","4">>, <<"m","o","v">>, <<"a","v","i">>, <<"m","k","v">>, <<"w","e","b","m">>}

\* ------------------------------------------------------------ characters
Maiusculas == <<"A","B","C","D","E","F","G","H","I","J","K","L","M",
                "N","O","P","Q","R","S","T","U","V","W","X","Y","Z">>
Minusculas == <<"a","b","c","d","e","f","g","h","i","j","k","l","m",
                "n","o","p","q","r","s","t","u","v","w","x","y","z">>
Digitos == <<"0","1","2","3","4","5","6","7","8","9">>

Range(s) == {s[i] : i \in DOMAIN s}

LowerChar(c) ==
    IF \E i \in DOMAIN Maiusculas : Maiusculas[i] = c
    THEN Minusculas[CHOOSE i \in DOMAIN Maiusculas : Maiusculas[i] = c]
    ELSE c

UpperChar(c) ==
    IF \E i \in DOMAIN Minusculas : Minusculas[i] = c
    THEN Maiusculas[CHOOSE i \in DOMAIN Minusculas : Minusculas[i] = c]
    ELSE c

\* str.lower() / str.upper()
Lower(s) == [i \in DOMAIN s |-> LowerChar(s[i])]
Upper(s) == [i \in DOMAIN s |-> UpperChar(s[i])]

\* str(num) for num >= 0
RECURSIVE Dec(_)
Dec(n) == IF n < 10 THEN <<Digitos[n + 1]>>
          ELSE Dec(n \div 10) \o <<Digitos[(n % 10) + 1]>>

\* filename.split(".")[-1]
RECURSIVE SplitLast(_)
SplitLast(s) ==
    IF s = <<>> THEN <<>>
    ELSE IF \E i \in DOMAIN s : s[i] = "."
         THEN SplitLast(SubSeq(s, (CHOOSE i \in DOMAIN s : s[i] = ".") + 1, Len(s)))
         ELSE s

\* ------------------------------------------- django.utils.text.slugify
IsWordChar(c) == c \in Range(Minusculas) \cup Range(Maiusculas) \cup Range(Digitos) \cup {"_"}
IsSep(c) == c \in {" ", "-"}

\* re.sub(r"[^\w\s-]", "", value)
RECURSIVE DropOther(_)
DropOther(s) ==
    IF s = <<>> THEN <<>>
    ELSE IF IsWordChar(Head(s)) \/ IsSep(Head(s))
         THEN <<Head(s)>> \o DropOther(Tail(s))
         ELSE DropOther(Tail(s))

\* re.sub(r"[-\s]+", "-", value)
RECURSIVE Collapse(_)
Collapse(s) ==
    IF s = <<>> THEN <<>>
    ELSE IF IsSep(Head(s))
         THEN IF Len(s) > 1 /\ IsSep(s[2])
              THEN Collapse(Tail(s))
              ELSE <<"-">> \o Collapse(Tail(s))
         ELSE <<Head(s)>> \o Collapse(Tail(s))

\* value.strip("-_")
RECURSIVE LStrip(_)
LStrip(s) == IF s # <<>> /\ Head(s) \in {"-", "_"} THEN LStrip(Tail(s)) ELSE s
RECURSIVE RStrip(_)
RStrip(s) == IF s # <<>> /\ s[Len(s)] \in {"-", "_"}
             THEN RStrip(SubSeq(s, 1, Len(s) - 1)) ELSE s

slugify(value) == RStrip(LStrip(Collapse(DropOther(Lower(value)))))

\* ------------------------------------------------------ adocoes/models.py
PENDENTE == "PENDENTE"
DISPONIVEL == "DISPONIVEL"
EM_PROCESSO == "EM_PROCESSO"
ADOTADO == "ADOTADO"
StatusChoices == <<PENDENTE, DISPONIVEL, EM_PROCESSO, ADOTADO>>

CACHORRO == "CACHORRO"
GATO == "GATO"
OUTRO == "OUTRO"

\* The characters of a status value, to compare it with request text.
Spell(s) ==
    CASE s = PENDENTE -> <<"P","E","N","D","E","N","T","E">>
      [] s = DISPONIVEL -> <<"D","I","S","P","O","N","I","V","E","L">>
      [] s = EM_PROCESSO -> <<"E","M","_","P","R","O","C","E","S","S","O">>
      [] s = ADOTADO -> <<"A","D","O","T","A","D","O">>

\* Users: is_staff, and is_authenticated of a request's actor.  An actor is
\* [user |-> a user name or NULL, is_visitor |-> the session marker].
Staff == {"staff"}
is_staff(u) == u \in Staff
is_authenticated(ator, us) == ator.user \in us

\* Pet.fotos_extras: the photo ids of pet pk.
fotos_extras(fs, pk) == {f \in DOMAIN fs : fs[f].pet = pk}

\* Pet.objects.filter(slug=s).exists()
SlugExists(ps, s) == \E id \in DOMAIN ps : ps[id].slug = s

\* Mutant: the slug column is not unique.
SlugUniqueViolated_none(ps, pk, s) == FALSE

\* unique=True of Pet.slug: the row (id pk) may not share its slug.
SlugUniqueViolated(ps, pk, s) ==
    \E id \in DOMAIN ps : id # pk /\ ps[id].slug = s

\* Mutant: no constraint on (nome, especie).
NomeEspecieViolated_none(ps, pk, nome, especie) == FALSE

\* UniqueConstraint(fields=["nome", "especie"]): checked by the form's
\* validation and enforced by the database.
NomeEspecieViolated(ps, pk, nome, especie) ==
    \E id \in DOMAIN ps : id # pk /\ ps[id].nome = nome /\ ps[id].especie = especie

\* Mutant: the suffix counter is used after it is incremented.
SlugLoopStep_skip(ps, base_slug, st) ==
    IF SlugExists(ps, st.unique_slug)
    THEN [unique_slug |-> base_slug \o <<"-">> \o Dec(st.num + 1), num |-> st.num + 1]
    ELSE st

\* One pass of the while loop of Pet.save: the next candidate, or the same
\* state when the candidate is free.
SlugLoopStep(ps, base_slug, st) ==
    IF SlugExists(ps, st.unique_slug)
    THEN [unique_slug |-> base_slug \o <<"-">> \o Dec(st.num), num |-> st.num + 1]
    ELSE st

RECURSIVE SlugLoop(_, _, _)
SlugLoop(ps, base_slug, st) ==
    IF SlugExists(ps, st.unique_slug)
    THEN SlugLoop(ps, base_slug, SlugLoopStep(ps, base_slug, st))
    ELSE st.unique_slug

\* Mutant: every save assigns the slug again from nome.
Pet_save_always(ps, inst) ==
    [inst EXCEPT !.slug =
        SlugLoop(ps, slugify(inst.nome), [unique_slug |-> slugify(inst.nome), num |-> 1])]

\* Pet.save, up to super().save(): the instance with its slug assigned.
Pet_save(ps, inst) ==
    IF inst.slug = <<>>
    THEN [inst EXCEPT !.slug =
            SlugLoop(ps, slugify(inst.nome),
                     [unique_slug |-> slugify(inst.nome), num |-> 1])]
    ELSE inst

\* ------------------------------------------------------------ the database
\* A database state is [pets, fotos, nextPetId, nextFotoId]; every
\* statement is committed on its own (autocommit, no ATOMIC_REQUESTS).
IntegrityError(db, pk, row) ==
    \/ SlugUniqueViolated(db.pets, pk, row.slug)
    \/ NomeEspecieViolated(db.pets, pk, row.nome, row.especie)

Apply(db, op) ==
    CASE op.t = "insert_pet" ->
            [db EXCEPT !.pets = db.pets @@ (db.nextPetId :> op.row),
                       !.nextPetId = db.nextPetId + 1]
      [] op.t = "update_pet" ->
            [db EXCEPT !.pets = [db.pets EXCEPT ![op.pk] = op.row]]
      [] op.t = "delete_fotos" ->
            [db EXCEPT !.fotos = [f \in DOMAIN db.fotos \ op.ids |-> db.fotos[f]]]
      [] op.t = "create_foto" ->
            [db EXCEPT !.fotos = db.fotos @@ (db.nextFotoId :> [pet |-> op.pet, ordem |-> op.ordem]),
                       !.nextFotoId = db.nextFotoId + 1]
      [] op.t = "delete_pet" ->
            [db EXCEPT !.pets = [id \in DOMAIN db.pets \ {op.pk} |-> db.pets[id]],
                       !.fotos = [f \in DOMAIN db.fotos \ fotos_extras(db.fotos, op.pk) |-> db.fotos[f]]]

\* A statement raises when it breaks a database constraint.
Raises(db, op) ==
    \/ op.t = "insert_pet" /\ IntegrityError(db, 0, op.row)
    \/ op.t = "update_pet" /\ IntegrityError(db, op.pk, op.row)

\* The statements of ops in order, up to the first one that raises.  falha
\* is the position of a statement the environment makes fail (storage or
\* database error), 0 for none.  No statement already run is undone.
RECURSIVE Exec(_, _, _)
Exec(db, ops, falha) ==
    IF ops = <<>> THEN [db |-> db, ok |-> TRUE]
    ELSE IF falha = 1 \/ Raises(db, Head(ops)) THEN [db |-> db, ok |-> FALSE]
    ELSE Exec(Apply(db, Head(ops)), Tail(ops), IF falha = 0 THEN 0 ELSE falha - 1)

\* ------------------------------------------------------- adocoes/forms.py
\* A submission is [nome, especie, status, raca, idade, video,
\* fotos_adicionais, fotos_extras_remover]; a file is [name, size].
nomes_proibidos ==
    {<<"c","a","c","h","o","r","r","o">>, <<"g","a","t","o">>, <<"p","e","t">>,
     <<"a","n","i","m","a","l">>, <<"o","u","t","r","o">>}

validate_file_extension(filename, allowed_extensions) ==
    Lower(SplitLast(filename)) \in allowed_extensions

validate_file_size(file_obj, max_size_mb) ==
    ~(file_obj.size > max_size_mb * 1024 * 1024)

\* Mutant: the status field is kept for every user.
HasStatusField_kept(user) == TRUE

\* PetForm.__init__: the status field is dropped for a non-staff user.
HasStatusField(user) == ~(user # NULL /\ ~is_staff(user))

\* PetForm.__init__: self._existing_extra_photos
existing_extra_photos(db, pk) ==
    IF pk # 0 THEN Cardinality(fotos_extras(db.fotos, pk)) ELSE 0

\* PetForm.__init__: the removal field exists for a saved pet with photos.
HasRemoverField(db, pk) == pk # 0 /\ fotos_extras(db.fotos, pk) # {}

\* Mutant: the reserved names are compared without lower().
PetForm_clean_nome_case(nome) ==
    IF nome # <<>> /\ nome \in nomes_proibidos THEN {"nome"} ELSE {}

PetForm_clean_nome(nome) ==
    IF nome # <<>> /\ Lower(nome) \in nomes_proibidos THEN {"nome"} ELSE {}

\* cleaned_data["video"]: the upload, else the stored file of the instance.
CleanedVideo(db, pk, sub) ==
    IF sub.video # NoFile THEN sub.video
    ELSE IF pk # 0 THEN db.pets[pk].video ELSE NoFile

\* PetForm.clean: the error it ends with (a raise ends it at once).
PetForm_clean(db, pk, sub) ==
    LET extra_files == sub.fotos_adicionais
        total == Len(extra_files) + existing_extra_photos(db, pk)
        video_file == CleanedVideo(db, pk, sub)
    IN  IF extra_files # <<>> /\ total > MAX_ADDITIONAL_PHOTOS THEN {"count"}
        ELSE IF \E i \in DOMAIN extra_files :
                   \/ ~validate_file_extension(extra_files[i].name, ALLOWED_IMAGE_EXTENSIONS)
                   \/ ~validate_file_size(extra_files[i], MAX_ADDITIONAL_IMAGE_SIZE_MB)
             THEN {"fotos_adicionais"}
        ELSE IF /\ video_file # NoFile
                /\ \/ ~validate_file_extension(video_file.name, ALLOWED_VIDEO_EXTENSIONS)
                   \/ ~validate_file_size(video_file, MAX_VIDEO_SIZE_MB)
             THEN {"video"}
        ELSE IF sub.especie = OUTRO /\ sub.raca = <<>> THEN {"raca"}
        ELSE {}

\* Pet.idade: MinValueValidator(0), MaxValueValidator(30)
IdadeErrors(idade) == IF idade < 0 \/ idade > 30 THEN {"idade"} ELSE {}

\* The removal field accepts only photos of the instance.
RemoverErrors(db, pk, sub) ==
    IF HasRemoverField(db, pk) /\ ~(sub.fotos_extras_remover \subseteq fotos_extras(db.fotos, pk))
    THEN {"fotos_extras_remover"} ELSE {}

\* The form's unique check of (nome, especie), made when both fields are clean.
UniqueErrors(db, pk, sub) ==
    IF PetForm_clean_nome(sub.nome) = {} /\ NomeEspecieViolated(db.pets, pk, sub.nome, sub.especie)
    THEN {"unique"} ELSE {}

\* form.errors after is_valid()
PetForm_errors(db, pk, sub) ==
    PetForm_clean_nome(sub.nome) \cup IdadeErrors(sub.idade) \cup RemoverErrors(db, pk, sub)
        \cup PetForm_clean(db, pk, sub) \cup UniqueErrors(db, pk, sub)

\* The instance the form builds from its cleaned fields.
NewPet ==
    [nome |-> <<>>, especie |-> OUTRO, raca |-> <<>>, idade |-> 0, video |-> NoFile,
     status |-> PENDENTE, slug |-> <<>>, solicitante |-> NULL]

Instance(db, user, pk, sub) ==
    LET old == IF pk = 0 THEN NewPet ELSE db.pets[pk]
    IN  [old EXCEPT !.nome = sub.nome, !.especie = sub.especie, !.raca = sub.raca,
                    !.idade = sub.idade,
                    !.video = IF sub.video # NoFile THEN sub.video ELSE old.video,
                    !.status = IF HasStatusField(user) THEN sub.status ELSE old.status]

\* PetForm.save, before pet.save(): solicitante and the forced status.
PetForm_presave(user, pk, pet) ==
    LET p1 == IF pk = 0 /\ user # NULL THEN [pet EXCEPT !.solicitante = user] ELSE pet
    IN  IF ~is_staff(user) /\ pk = 0 THEN [p1 EXCEPT !.status = PENDENTE] ELSE p1

\* cleaned_data["fotos_extras_remover"]
ToRemove(db, pk, sub) == IF HasRemoverField(db, pk) THEN sub.fotos_extras_remover ELSE {}

\* PetForm._save_m2m_data: delete the removed photos, then create the new
\* ones with ordem counted from the photos that remain.
save_m2m_data(db, pk, extra_files, to_remove) ==
    LET existing_count == Cardinality(fotos_extras(db.fotos, pk) \ to_remove)
    IN  (IF to_remove # {} THEN <<[t |-> "delete_fotos", ids |-> to_remove]>> ELSE <<>>)
        \o [i \in 1..Len(extra_files) |->
              [t |-> "create_foto", pet |-> pk, ordem |-> existing_count + i]]

\* PetForm.save(commit=True) with the row pet.save() writes: the statements
\* it runs, in order.
SaveStatements(db, pk, row, extra_files, to_remove) ==
    IF pk = 0
    THEN <<[t |-> "insert_pet", row |-> row]>>
         \o save_m2m_data(db, db.nextPetId, extra_files, to_remove)
    ELSE <<[t |-> "update_pet", pk |-> pk, row |-> row]>>
         \o save_m2m_data(db, pk, extra_files, to_remove)

\* ------------------------------------------------------- adocoes/views.py
DB == [pets |-> pets, fotos |-> fotos, nextPetId |-> nextPetId, nextFotoId |-> nextFotoId]

SetDB(db) ==
    /\ pets' = db.pets
    /\ fotos' = db.fotos
    /\ nextPetId' = db.nextPetId
    /\ nextFotoId' = db.nextFotoId

NoSub == [nome |-> <<>>]

\* The last request served: what was asked, by whom, and how it ended
\* (info: what the response shows, the form's errors for a refused form).
Served(op, ator, alvo, sub, outcome, info) ==
    [op |-> op, ator |-> ator, alvo |-> alvo, sub |-> sub, outcome |-> outcome, info |-> info]

\* Mutant: the session's visitor marker passes for a login.
LoginRequired_visitor(ator) == is_authenticated(ator, usuarios) \/ ator.is_visitor

\* LoginRequiredMixin.dispatch
LoginRequired(ator) == is_authenticated(ator, usuarios)

\* StaffRequiredMixin.test_func
StaffRequired_test_func(ator) == is_authenticated(ator, usuarios) /\ is_staff(ator.user)

\* Mutant: any logged-in user passes.
PetOwnerOrStaff_test_func_login(ator, pet) == is_authenticated(ator, usuarios)

\* PetOwnerOrStaffRequiredMixin.test_func
PetOwnerOrStaff_test_func(ator, pet) ==
    is_authenticated(ator, usuarios) /\ (is_staff(ator.user) \/ pet.solicitante = ator.user)

\* PetCreateView.form_valid: form.save(), then the parent form_valid, which
\* calls form.save() again on the same form and instance.  The second
\* pet.save() runs Pet.save on the instance as the first one left it: a
\* slug that came out empty is assigned again, the record itself now being
\* among those that have the empty slug.
PetCreateView_form_valid(db, row, extra_files) ==
    LET first == SaveStatements(db, 0, row, extra_files, {})
        db1 == Exec(db, first, 0).db
    IN  first \o SaveStatements(db1, db.nextPetId, Pet_save(db1.pets, row), extra_files, {})

\* UpdateView.form_valid: form.save() once.
PetUpdateView_form_valid(db, pk, row, extra_files, to_remove) ==
    SaveStatements(db, pk, row, extra_files, to_remove)

\* POST pet/adicionar/
CreateSubmit(ator, sub, falha) ==
    /\ UNCHANGED <<usuarios, reqs, session>>
    /\ IF ~LoginRequired(ator)
       THEN /\ last' = Served("create", ator, 0, sub, "negado", 0)
            /\ UNCHANGED <<pets, fotos, nextPetId, nextFotoId>>
       ELSE IF PetForm_errors(DB, 0, sub) # {}
       THEN /\ last' = Served("create", ator, 0, sub, "invalido", PetForm_errors(DB, 0, sub))
            /\ UNCHANGED <<pets, fotos, nextPetId, nextFotoId>>
       ELSE LET pet == PetForm_presave(ator.user, 0, Instance(DB, ator.user, 0, sub))
                ops == PetCreateView_form_valid(DB, Pet_save(pets, pet), sub.fotos_adicionais)
                r == Exec(DB, ops, falha)
            IN  /\ falha <= Len(ops)
                /\ SetDB(r.db)
                /\ last' = Served("create", ator, nextPetId, sub,
                                  IF r.ok THEN "ok" ELSE "erro", 0)

\* POST pet/<slug>/editar/ for the pet pk that has the slug of the URL
EditSubmit(ator, pk, sub, falha) ==
    /\ pk \in DOMAIN pets
    /\ pets[pk].slug # <<>>
    /\ UNCHANGED <<usuarios, reqs, session>>
    /\ IF ~PetOwnerOrStaff_test_func(ator, pets[pk])
       THEN /\ last' = Served("edit", ator, pk, sub, "negado", 0)
            /\ UNCHANGED <<pets, fotos, nextPetId, nextFotoId>>
       ELSE IF PetForm_errors(DB, pk, sub) # {}
       THEN /\ last' = Served("edit", ator, pk, sub, "invalido", PetForm_errors(DB, pk, sub))
            /\ UNCHANGED <<pets, fotos, nextPetId, nextFotoId>>
       ELSE LET pet == PetForm_presave(ator.user, pk, Instance(DB, ator.user, pk, sub))
                ops == PetUpdateView_form_valid(DB, pk, Pet_save(pets, pet),
                                                sub.fotos_adicionais, ToRemove(DB, pk, sub))
                r == Exec(DB, ops, falha)
            IN  /\ falha <= Len(ops)
                /\ SetDB(r.db)
                /\ last' = Served("edit", ator, pk, sub, IF r.ok THEN "ok" ELSE "erro", 0)

\* POST pet/<slug>/deletar/
DeleteRequest(ator, pk) ==
    /\ pk \in DOMAIN pets
    /\ pets[pk].slug # <<>>
    /\ UNCHANGED <<usuarios, reqs, session>>
    /\ IF ~PetOwnerOrStaff_test_func(ator, pets[pk])
       THEN /\ last' = Served("delete", ator, pk, NoSub, "negado", 0)
            /\ UNCHANGED <<pets, fotos, nextPetId, nextFotoId>>
       ELSE /\ SetDB(Apply(DB, [t |-> "delete_pet", pk |-> pk]))
            /\ last' = Served("delete", ator, pk, NoSub, "ok", 0)

\* Deleting a user: Pet.solicitante is on_delete=SET_NULL.
DeleteUser(u) ==
    /\ u \in usuarios
    /\ usuarios' = usuarios \ {u}
    /\ pets' = [id \in DOMAIN pets |->
                  IF pets[id].solicitante = u
                  THEN [pets[id] EXCEPT !.solicitante = NULL] ELSE pets[id]]
    /\ last' = Served("delete_user", [user |-> u, is_visitor |-> FALSE], 0, NoSub, "ok", 0)
    /\ UNCHANGED <<fotos, nextPetId, nextFotoId, reqs, session>>

\* VisitorOrUserRequiredMixin.dispatch: refused when the user is not
\* authenticated and the session has no is_visitor marker.
VisitorOrUserRequired(ator) ==
    ~(~is_authenticated(ator, usuarios) /\ ~ator.is_visitor)

\* PetListView.paginate_by
paginate_by == 8

\* nome__icontains
icontains(texto, parte) ==
    \E i \in 0..(Len(texto) - Len(parte)) :
        SubSeq(Lower(texto), i + 1, i + Len(parte)) = Lower(parte)

\* order_by('-data_cadastro'): data_cadastro is set once at creation, so the
\* records come newest id first.
RECURSIVE order_by_desc(_)
order_by_desc(ids) ==
    IF ids = {} THEN <<>>
    ELSE LET m == CHOOSE x \in ids : \A y \in ids : y <= x
         IN  <<m>> \o order_by_desc(ids \ {m})

\* PetListView.get_queryset for the query [filtro, nome, especie]
PetListView_get_queryset(ps, ator, q) ==
    LET queryset == IF q.filtro = "meus" /\ is_authenticated(ator, usuarios)
                    THEN {id \in DOMAIN ps : ps[id].solicitante = ator.user}
                    ELSE {id \in DOMAIN ps : ps[id].status = DISPONIVEL}
        by_nome == IF q.nome # <<>>
                   THEN {id \in queryset : icontains(ps[id].nome, q.nome)} ELSE queryset
        by_especie == IF q.especie # ""
                      THEN {id \in by_nome : ps[id].especie = q.especie} ELSE by_nome
    IN  order_by_desc(by_especie)

\* GET galeria/ (first page)
ListRequest(ator, q) ==
    /\ IF ~VisitorOrUserRequired(ator)
       THEN last' = Served("list", ator, 0, NoSub, "negado", 0)
       ELSE LET object_list == PetListView_get_queryset(pets, ator, q)
            IN  last' = Served("list", ator, 0, NoSub, "ok",
                               SubSeq(object_list, 1, IF Len(object_list) < paginate_by
                                                      THEN Len(object_list) ELSE paginate_by))
    /\ UNCHANGED <<pets, fotos, nextPetId, nextFotoId, usuarios, reqs, session>>

\* GET pet/<slug>/
DetailRequest(ator, slug) ==
    /\ slug # <<>>
    /\ IF ~VisitorOrUserRequired(ator)
       THEN last' = Served("detail", ator, slug, NoSub, "negado", 0)
       ELSE IF ~SlugExists(pets, slug)
       THEN last' = Served("detail", ator, slug, NoSub, "404", 0)
       ELSE last' = Served("detail", ator, slug, NoSub, "ok",
                           CHOOSE id \in DOMAIN pets : pets[id].slug = slug)
    /\ UNCHANGED <<pets, fotos, nextPetId, nextFotoId, usuarios, reqs, session>>

\* The actor of a request sent by the browser that is not logged in.
SessionAtor == [user |-> NULL, is_visitor |-> session.is_visitor]

\* GET entrar-visitante/: VisitorRedirectView.get marks the session.
EntrarVisitante ==
    /\ session' = [session EXCEPT !.is_visitor = TRUE]
    /\ last' = Served("entrar_visitante", SessionAtor, 0, NoSub, "ok", 0)
    /\ UNCHANGED <<pets, fotos, nextPetId, nextFotoId, usuarios, reqs>>

\* POST logout/ (or the browser closing, the session expiring with it):
\* the session and its marker are dropped.
Logout ==
    /\ session' = [is_visitor |-> FALSE]
    /\ last' = Served("logout", SessionAtor, 0, NoSub, "ok", 0)
    /\ UNCHANGED <<pets, fotos, nextPetId, nextFotoId, usuarios, reqs>>

\* POST pet/adicionar/ served by worker p while other requests are served:
\* the form is validated, then each existence check of Pet.save and the
\* insert are steps that interleave with the other worker's.
RaceBegin(p, ator, sub) ==
    /\ reqs[p].pc = "idle"
    /\ LoginRequired(ator)
    /\ reqs' = [reqs EXCEPT ![p] =
          IF PetForm_errors(DB, 0, sub) # {}
          THEN [pc |-> "done", ator |-> ator, sub |-> sub, outcome |-> "invalido"]
          ELSE [pc |-> "save", ator |-> ator, sub |-> sub,
                pet |-> PetForm_presave(ator.user, 0, Instance(DB, ator.user, 0, sub)),
                st |-> [unique_slug |-> slugify(sub.nome), num |-> 1]]]
    /\ UNCHANGED <<pets, fotos, nextPetId, nextFotoId, usuarios, last, session>>

\* Pet.save: one evaluation of the while condition.
RaceSlugCheck(p) ==
    /\ reqs[p].pc = "save"
    /\ reqs' = [reqs EXCEPT ![p] =
          IF SlugExists(pets, reqs[p].st.unique_slug)
          THEN [reqs[p] EXCEPT !.st = SlugLoopStep(pets, slugify(reqs[p].sub.nome), reqs[p].st)]
          ELSE [reqs[p] EXCEPT !.pc = "insert", !.pet.slug = reqs[p].st.unique_slug]]
    /\ UNCHANGED <<pets, fotos, nextPetId, nextFotoId, usuarios, last, session>>

\* Pet.save: super().save(), and the rest of form_valid when it succeeds.
RaceInsert(p) ==
    /\ reqs[p].pc = "insert"
    /\ LET ops == PetCreateView_form_valid(DB, reqs[p].pet, reqs[p].sub.fotos_adicionais)
           r == Exec(DB, ops, 0)
           outcome == IF r.ok THEN "ok" ELSE "erro"
       IN  /\ SetDB(r.db)
           /\ reqs' = [reqs EXCEPT ![p] =
                 [pc |-> "done", ator |-> reqs[p].ator, sub |-> reqs[p].sub,
                  pet |-> reqs[p].pet, outcome |-> outcome]]
           /\ last' = Served("create", reqs[p].ator, nextPetId, reqs[p].sub, outcome, 0)
    /\ UNCHANGED <<usuarios, session>>

\* The response is sent; the worker takes the next request.
RaceDone(p) ==
    /\ reqs[p].pc = "done"
    /\ reqs' = [reqs EXCEPT ![p] = [pc |-> "idle"]]
    /\ UNCHANGED <<pets, fotos, nextPetId, nextFotoId, usuarios, last, session>>

\* request.GET.get('status', Pet.StatusChoices.PENDENTE) for the query
\* [present |-> whether status is given, value |-> its text]
GET_status(q) == IF q.present THEN q.value ELSE Spell(PENDENTE)

valid_statuses == {Spell(StatusChoices[i]) : i \in DOMAIN StatusChoices}

\* RelatorioPetView.get_queryset: the ids of the listed records.
Relatorio_get_queryset(ps, q) ==
    LET given == Upper(GET_status(q))
        status_filter == IF given \notin valid_statuses THEN Spell(PENDENTE) ELSE given
    IN  {id \in DOMAIN ps : Spell(ps[id].status) = status_filter}

\* RelatorioPetView.get_context_data: Pet.StatusChoices(current_status)
\* raises ValueError for a text that is no status value.
Relatorio_raises(q) == Upper(GET_status(q)) \notin valid_statuses

Relatorio_get_context_data(ps, q) ==
    [current_status |-> Upper(GET_status(q)),
     counts |-> [k \in {Lower(v) : v \in valid_statuses} |->
                   Cardinality({id \in DOMAIN ps : Lower(Spell(ps[id].status)) = k})]]

\* GET relatorios/
Relatorio(ator, q) ==
    /\ IF ~StaffRequired_test_func(ator)
       THEN last' = Served("relatorio", ator, q, NoSub, "negado", 0)
       ELSE IF Relatorio_raises(q)
       THEN last' = Served("relatorio", ator, q, NoSub, "erro", 0)
       ELSE last' = Served("relatorio", ator, q, NoSub, "ok",
                           [pets |-> Relatorio_get_queryset(pets, q),
                            context |-> Relatorio_get_context_data(pets, q)])
    /\ UNCHANGED <<pets, fotos, nextPetId, nextFotoId, usuarios, reqs, session>>

\* ------------------------------------------------------- adocoes/admin.py
\* PetAdmin.aprovar_pets on the selected queryset: the rows it leaves and
\* the count it reports.  (aprovar_pets_nofilter is the mutant that updates
\* the whole selection.)
aprovar_pets_nofilter(ps, queryset) ==
    [pets |-> [id \in DOMAIN ps |->
                 IF id \in queryset THEN [ps[id] EXCEPT !.status = DISPONIVEL] ELSE ps[id]],
     updated_count |-> Cardinality(queryset)]

aprovar_pets(ps, queryset) ==
    LET pets_para_aprovar == {id \in queryset : ps[id].status = PENDENTE}
    IN  [pets |-> [id \in DOMAIN ps |->
                     IF id \in pets_para_aprovar
                     THEN [ps[id] EXCEPT !.status = DISPONIVEL] ELSE ps[id]],
         updated_count |-> Cardinality(pets_para_aprovar)]

AprovarPets(ator, queryset) ==
    /\ StaffRequired_test_func(ator)
    /\ queryset # {}
    /\ queryset \subseteq DOMAIN pets
    /\ LET r == aprovar_pets(pets, queryset)
       IN  /\ pets' = r.pets
           /\ last' = Served("aprovar", ator, queryset, NoSub, "ok", r.updated_count)
    /\ UNCHANGED <<fotos, nextPetId, nextFotoId, usuarios, reqs, session>>

\* ------------------------------------------------------------------ inputs
Ator(u) == [user |-> u, is_visitor |-> FALSE]
Anonimo == [user |-> NULL, is_visitor |-> FALSE]
Visitante == [user |-> NULL, is_visitor |-> TRUE]
Usuarios == {"ana", "bia", "staff"}
Procs == {"p1", "p2"}

Rex == <<"R","e","x">>
rex == <<"r","e","x">>
Rex1 == <<"R","e","x"," ","1">>
Luna == <<"L","u","n","a">>
Bang == <<"!">>
Pet == <<"P","e","t">>
Srd == <<"S","R","D">>

FotoOk == [name |-> <<"a",".","J","P","G">>, size |-> 1024]
FotoExe == [name |-> <<"a",".","j","p","g",".","e","x","e">>, size |-> 1024]
FotoGrande == [name |-> <<"a",".","p","n","g">>,
               size |-> MAX_ADDITIONAL_IMAGE_SIZE_MB * 1024 * 1024 + 1]
VideoOk == [name |-> <<"v",".","m","p","4">>, size |-> MAX_VIDEO_SIZE_MB * 1024 * 1024]
VideoGif == [name |-> <<"v",".","g","i","f">>, size |-> 1024]
VideoGrande == [name |-> <<"v",".","M","O","V">>, size |-> MAX_VIDEO_SIZE_MB * 1024 * 1024 + 1]

Fotos(k) == [i \in 1..k |-> FotoOk]

Sub(nome, especie, status, raca, idade, video, novas, remover) ==
    [nome |-> nome, especie |-> especie, status |-> status, raca |-> raca,
     idade |-> idade, video |-> video, fotos_adicionais |-> novas,
     fotos_extras_remover |-> remover]

\* A plain valid submission: only nome, especie and status vary.
Simples(nome, especie, status) == Sub(nome, especie, status, Srd, 5, NoFile, <<>>, {})

Init ==
    /\ pets = <<>>
    /\ fotos = <<>>
    /\ nextPetId = 1
    /\ nextFotoId = 1
    /\ usuarios = Usuarios
    /\ last = Served("init", Anonimo, 0, NoSub, "ok", 0)
    /\ reqs = [p \in Procs |-> [pc |-> "idle"]]
    /\ session = [is_visitor |-> FALSE]

\* -------------------------------------------- the status workflow (Spec)
StatusSubs == {Simples(n, CACHORRO, st) : n \in {Rex, Luna}, st \in {PENDENTE, DISPONIVEL, ADOTADO}}

Next ==
    \/ /\ nextPetId <= MaxPets
       /\ \E a \in {Ator("ana"), Ator("staff")}, sub \in StatusSubs : CreateSubmit(a, sub, 0)
    \/ \E a \in {Ator("ana"), Ator("bia"), Ator("staff")}, pk \in DOMAIN pets, sub \in StatusSubs :
          EditSubmit(a, pk, sub, 0)
    \/ \E queryset \in SUBSET DOMAIN pets : AprovarPets(Ator("staff"), queryset)

Spec == Init /\ [][Next]_vars

\* ------------------------------------------------- the gallery (SpecGaleria)
\* Submissions that differ in their gallery files and removals only.
Galeria(nome, k, remover) == Sub(nome, CACHORRO, PENDENTE, Srd, 5, NoFile, Fotos(k), remover)

NextGaleria ==
    \/ /\ nextPetId <= MaxPets
       /\ \E nome \in {Rex}, k \in 0..MaxNovas :
             /\ nextFotoId + 2 * k <= MaxFotos + 1
             /\ CreateSubmit(Ator("ana"), Galeria(nome, k, {}), 0)
    \/ \E pk \in DOMAIN pets, k \in 0..MaxNovas :
          \E remover \in SUBSET fotos_extras(fotos, pk) :
             /\ nextFotoId + k <= MaxFotos + 1
             /\ EditSubmit(Ator("ana"), pk, Galeria(pets[pk].nome, k, remover), 0)

SpecGaleria == Init /\ [][NextGaleria]_vars

\* ---------------------------------------- names and slugs (SpecSlug)
\* Names whose slugs collide: "Rex" and "rex" give rex, "Rex 1" gives rex-1,
\* "!" gives the empty slug.
SlugSubs ==
    {Simples(Rex, CACHORRO, PENDENTE), Simples(Rex, GATO, PENDENTE),
     Simples(rex, CACHORRO, PENDENTE), Simples(Rex1, CACHORRO, PENDENTE),
     Simples(Bang, CACHORRO, PENDENTE)}

NextSlug ==
    \/ /\ nextPetId <= MaxPetsSlug
       /\ \E sub \in SlugSubs : CreateSubmit(Ator("ana"), sub, 0)
    \/ \E pk \in DOMAIN pets : DeleteRequest(Ator("ana"), pk)

SpecSlug == Init /\ [][NextSlug]_vars

\* ------------------------------- unique (nome, especie) pairs (SpecUnico)
UnicoSubs ==
    {Simples(Rex, CACHORRO, PENDENTE), Simples(Rex, GATO, PENDENTE),
     Simples(rex, CACHORRO, PENDENTE), Simples(Rex1, CACHORRO, PENDENTE)}

NextUnico ==
    \/ /\ nextPetId <= MaxPets
       /\ \E sub \in UnicoSubs : CreateSubmit(Ator("ana"), sub, 0)
    \/ \E a \in {Ator("ana"), Ator("staff")}, pk \in DOMAIN pets, sub \in UnicoSubs :
          EditSubmit(a, pk, sub, 0)
    \/ \E pk \in DOMAIN pets : DeleteRequest(Ator("ana"), pk)

SpecUnico == Init /\ [][NextUnico]_vars

\* ------------------------------------------- access control (SpecAcesso)
Atores == {Ator("ana"), Ator("bia"), Ator("staff"), Anonimo, Visitante}
AcessoSubs == {Galeria(Rex, k, {}) : k \in 0..1}

NextAcesso ==
    \/ /\ nextPetId <= MaxPets
       /\ \E a \in Atores, sub \in AcessoSubs : CreateSubmit(a, sub, 0)
    \/ \E a \in Atores, pk \in DOMAIN pets, sub \in AcessoSubs : EditSubmit(a, pk, sub, 0)
    \/ \E a \in Atores, pk \in DOMAIN pets : DeleteRequest(a, pk)
    \/ \E u \in Usuarios \ Staff : DeleteUser(u)

SpecAcesso == Init /\ [][NextAcesso]_vars

\* ------------------------------------------------ validation (SpecValida)
\* Valid submissions, and submissions with one defect each.
ValidaSubs ==
    {Sub(Rex, OUTRO, PENDENTE, Srd, idade, NoFile, <<>>, {}) : idade \in {-1, 0, 30, 31}}
    \cup {Sub(Rex, OUTRO, PENDENTE, Srd, 5, video, <<>>, {}) :
            video \in {VideoOk, VideoGif, VideoGrande}}
    \cup {Sub(Rex, OUTRO, PENDENTE, Srd, 5, NoFile, novas, {}) :
            novas \in {Fotos(1), Fotos(MaxNovas), <<FotoExe>>, <<FotoOk, FotoGrande>>}}
    \cup {Sub(nome, OUTRO, PENDENTE, raca, 5, NoFile, <<>>, {}) :
            nome \in {Rex, Pet}, raca \in {<<>>, Srd}}

NextValida ==
    \/ /\ nextPetId <= MaxPets
       /\ \E sub \in ValidaSubs :
             /\ nextFotoId + 2 * Len(sub.fotos_adicionais) <= MaxFotos + 1
             /\ CreateSubmit(Ator("ana"), sub, 0)
    \/ \E pk \in DOMAIN pets, sub \in ValidaSubs :
          \E remover \in {{}, fotos_extras(fotos, pk)} :
             /\ nextFotoId + Len(sub.fotos_adicionais) <= MaxFotos + 1
             /\ EditSubmit(Ator("ana"), pk, [sub EXCEPT !.fotos_extras_remover = remover], 0)

SpecValida == Init /\ [][NextValida]_vars

\* ------------------------------- a commit statement that fails (SpecFalha)
\* The position of the statement that fails: 0 for none, else at most the
\* number of statements of the longest commit.
Falhas == 0..(2 * MaxNovas + 2)

NextFalha ==
    \/ /\ nextPetId <= MaxPets
       /\ \E k \in 0..MAX_ADDITIONAL_PHOTOS, falha \in Falhas :
             /\ nextFotoId + 2 * k <= MaxFotos + 1
             /\ CreateSubmit(Ator("ana"), Galeria(Rex, k, {}), falha)
    \/ \E pk \in DOMAIN pets, k \in 0..MAX_ADDITIONAL_PHOTOS, falha \in Falhas :
          \E remover \in {{}, fotos_extras(fotos, pk)} :
             /\ nextFotoId + k <= MaxFotos + 1
             /\ EditSubmit(Ator("ana"), pk, Galeria(Rex, k, remover), falha)

SpecFalha == Init /\ [][NextFalha]_vars

\* ------------------------------------ concurrent creations (SpecRace)
NextRace ==
    \/ /\ nextPetId <= MaxPets
       /\ \E p \in Procs, sub \in UnicoSubs : RaceBegin(p, Ator("ana"), sub)
    \/ \E p \in Procs : RaceSlugCheck(p)
    \/ \E p \in Procs : RaceInsert(p)
    \/ \E p \in Procs : RaceDone(p)

SpecRace == Init /\ [][NextRace]_vars

\* ---------------------------------------------- the report (SpecRelatorio)
Ausente == [present |-> FALSE, value |-> <<>>]
Query(v) == [present |-> TRUE, value |-> v]
Queries ==
    {Ausente, Query(<<>>), Query(<<"f","o","o">>),
     Query(<<"p","e","n","d","e","n","t","e">>), Query(<<"A","d","o","t","a","d","o">>),
     Query(Spell(DISPONIVEL)), Query(<<"e","m","_","P","R","O","C","E","S","S","O">>)}

NextRelatorio ==
    \/ /\ nextPetId <= MaxPets
       /\ \E nome \in {Rex, Luna}, st \in Range(StatusChoices) :
             CreateSubmit(Ator("staff"), Simples(nome, CACHORRO, st), 0)
    \/ \E a \in {Ator("staff"), Ator("ana")}, q \in Queries : Relatorio(a, q)

SpecRelatorio == Init /\ [][NextRelatorio]_vars

\* ------------------------------------- the visitor session (SpecVisitante)
\* Staff fills the store; a browser that is not logged in enters as visitor,
\* leaves, and sends every kind of request; a logged-in user browses too.
ListQueries ==
    {[filtro |-> f, nome |-> n, especie |-> e] :
        f \in {"", "meus"}, n \in {<<>>, <<"E","x">>}, e \in {"", CACHORRO}}
VisitanteSubs == {Simples(n, CACHORRO, st) : n \in {Rex, Luna}, st \in {PENDENTE, DISPONIVEL}}
Slugs == {slugify(Rex), slugify(Luna), slugify(Srd)}

NextVisitante ==
    \/ /\ nextPetId <= MaxPets
       /\ \E a \in {Ator("staff"), SessionAtor}, sub \in VisitanteSubs : CreateSubmit(a, sub, 0)
    \/ EntrarVisitante
    \/ Logout
    \/ \E a \in {Ator("ana"), SessionAtor}, q \in ListQueries : ListRequest(a, q)
    \/ \E a \in {Ator("ana"), SessionAtor}, slug \in Slugs : DetailRequest(a, slug)
    \/ \E pk \in DOMAIN pets, sub \in VisitanteSubs : EditSubmit(SessionAtor, pk, sub, 0)
    \/ \E pk \in DOMAIN pets : DeleteRequest(SessionAtor, pk)

SpecVisitante == Init /\ [][NextVisitante]_vars

\* ------------------------------------------------------------------ claims

\* C1: after any sequence of create and edit submissions, every pet has at
\* most MAX_ADDITIONAL_PHOTOS gallery photos.
C1_GalleryWithinMax ==
    \A pk \in DOMAIN pets : Cardinality(fotos_extras(fotos, pk)) <= MAX_ADDITIONAL_PHOTOS

\* C2: a record created by a non-staff user has status PENDENTE right after
\* creation, whatever status the submission carries, and no edit submitted
\* by a non-staff user changes the status of any record.
C2_NonStaffNeverSetsStatus ==
    [][/\ (last'.op = "create" /\ last'.outcome = "ok" /\ ~is_staff(last'.ator.user))
            => pets'[last'.alvo].status = PENDENTE
       /\ (last'.op = "edit" /\ ~is_staff(last'.ator.user))
            => \A id \in DOMAIN pets :
                  id \in DOMAIN pets' /\ pets'[id].status = pets[id].status]_vars

\* An owner's accepted edit that carried ADOTADO for an approved pet.
C2_Witness ==
    /\ last.op = "edit" /\ last.outcome = "ok" /\ ~is_staff(last.ator.user)
    /\ last.sub.status = ADOTADO
    /\ pets[last.alvo].status = DISPONIVEL
    /\ pets[last.alvo].nome = last.sub.nome

\* C3: aprovar_pets sets every selected PENDENTE record to DISPONIVEL,
\* leaves every other record and every photo as it was, and reports the
\* number of selected records that were PENDENTE; no selected record is
\* PENDENTE afterwards.
C3_AprovarPets ==
    [][last'.op = "aprovar" =>
          /\ DOMAIN pets' = DOMAIN pets
          /\ \A id \in DOMAIN pets :
                pets'[id] = IF id \in last'.alvo /\ pets[id].status = PENDENTE
                            THEN [pets[id] EXCEPT !.status = DISPONIVEL]
                            ELSE pets[id]
          /\ \A id \in last'.alvo : pets'[id].status # PENDENTE
          /\ last'.info = Cardinality({id \in last'.alvo : pets[id].status = PENDENTE})
          /\ fotos' = fotos]_vars

\* Two records selected, one of them approved, the other one not PENDENTE.
C3_Witness ==
    /\ last.op = "aprovar"
    /\ Cardinality(last.alvo) = 2
    /\ last.info = 1
    /\ \E id \in last.alvo : pets[id].status = ADOTADO

\* C4: all records have pairwise distinct slugs; a record created while its
\* base slug is free gets the base slug, and one created while it is taken
\* gets base-N for the smallest N >= 1 with base-N free.
C4_SlugSuffix ==
    /\ [](\A a \in DOMAIN pets, b \in DOMAIN pets : a # b => pets[a].slug # pets[b].slug)
    /\ [][(last'.op = "create" /\ last'.outcome = "ok") =>
            LET base == slugify(last'.sub.nome)
                taken(s) == \E id \in DOMAIN pets : pets[id].slug = s
                cand(n) == base \o <<"-">> \o Dec(n)
                got == pets'[last'.alvo].slug
            IN  IF ~taken(base) THEN got = base
                ELSE \E n \in 1..(Cardinality(DOMAIN pets) + 1) :
                        /\ got = cand(n)
                        /\ ~taken(cand(n))
                        /\ \A m \in 1..(n - 1) : taken(cand(m))]_vars

\* "rex" and "rex-1" are taken (the latter by "Rex 1") and a third record
\* with base slug rex has just been given rex-2.
C4_Witness ==
    /\ last.op = "create" /\ last.outcome = "ok"
    /\ pets[last.alvo].slug = <<"r","e","x","-","2">>
    /\ \E id \in DOMAIN pets : pets[id].nome = Rex1 /\ pets[id].slug = <<"r","e","x","-","1">>

\* C5: no two records have the same (nome, especie); a create or edit whose
\* pair is that of another existing record is refused and the store is left
\* as it was.
C5_NomeEspecieUnique ==
    /\ [](\A a \in DOMAIN pets, b \in DOMAIN pets :
            a # b => <<pets[a].nome, pets[a].especie>> # <<pets[b].nome, pets[b].especie>>)
    /\ [][(/\ last'.op \in {"create", "edit"}
           /\ \E id \in DOMAIN pets :
                 /\ id # last'.alvo
                 /\ pets[id].nome = last'.sub.nome
                 /\ pets[id].especie = last'.sub.especie)
            => (last'.outcome # "ok" /\ store' = store)]_vars

\* The owner's edit to the pair of another record, refused.
C5_Witness ==
    /\ last.op = "edit" /\ last.outcome = "invalido"
    /\ pets[last.alvo].solicitante = last.ator.user
    /\ \E id \in DOMAIN pets :
          /\ id # last.alvo
          /\ pets[id].nome = last.sub.nome
          /\ pets[id].especie = last.sub.especie

\* C6: an edit or delete request changes a record or its gallery only if
\* the actor is authenticated and is staff or the record's solicitante;
\* from any other actor it is refused and the store is left as it was.
C6_OwnerOrStaffOnly ==
    [][(/\ last'.op \in {"edit", "delete"}
        /\ ~(/\ last'.ator.user \in usuarios
             /\ \/ last'.ator.user \in Staff
                \/ pets[last'.alvo].solicitante = last'.ator.user))
         => (last'.outcome = "negado" /\ store' = store)]_vars

\* A logged-in non-staff user refused the deletion of a record whose
\* solicitante is null, the record holding gallery photos.
C6_Witness ==
    /\ last.op = "delete" /\ last.outcome = "negado"
    /\ last.ator.user \in usuarios \ Staff
    /\ pets[last.alvo].solicitante = NULL
    /\ fotos_extras(fotos, last.alvo) # {}

\* The validation defects of a submission for a pet whose gallery photos
\* are existentes: too many gallery photos, a gallery file or video of a
\* wrong type or size, especie OUTRO with blank raca, a reserved nome,
\* idade outside 0..30.
C7_Defect(sub, existentes) ==
    \/ /\ sub.fotos_adicionais # <<>>
       /\ Cardinality(existentes \ sub.fotos_extras_remover) + Len(sub.fotos_adicionais)
             > MAX_ADDITIONAL_PHOTOS
    \/ \E i \in DOMAIN sub.fotos_adicionais : sub.fotos_adicionais[i] \in {FotoExe, FotoGrande}
    \/ sub.video \in {VideoGif, VideoGrande}
    \/ sub.especie = OUTRO /\ sub.raca = <<>>
    \/ sub.nome = Pet
    \/ sub.idade \notin 0..30

\* C7: a create or edit submission that fails any validation is refused and
\* leaves the store as it was: no pet record is created or modified and no
\* gallery photo is created or deleted.
C7_InvalidLeavesStore ==
    [][(/\ last'.op \in {"create", "edit"}
        /\ C7_Defect(last'.sub, {f \in DOMAIN fotos : fotos[f].pet = last'.alvo}))
         => (last'.outcome = "invalido" /\ store' = store)]_vars

\* An edit with the reserved nome "Pet", refused, for a record with photos.
C7_Witness ==
    /\ last.op = "edit" /\ last.outcome = "invalido"
    /\ last.sub.nome = Pet /\ last.sub.raca = Srd
    /\ fotos_extras(fotos, last.alvo) # {}

\* C8: the commit of a valid submission is all-or-nothing: when a statement
\* of the commit fails, no pet record and no gallery photo has changed.
C8_CommitAllOrNothing ==
    [][(last'.op \in {"create", "edit"} /\ last'.outcome = "erro") => store' = store]_vars

C10_Esperado(q) ==
    IF q.present /\ \E i \in DOMAIN StatusChoices : Upper(q.value) = Spell(StatusChoices[i])
    THEN StatusChoices[CHOOSE i \in DOMAIN StatusChoices : Upper(q.value) = Spell(StatusChoices[i])]
    ELSE PENDENTE

\* C10: for every value of the status parameter a staff request completes
\* as a report on one status (the given one when valid in any letter case,
\* PENDENTE when absent or invalid), lists exactly the records with that
\* status and counts the records of each of the four statuses.
C10_ReportCompletes ==
    (last.op = "relatorio" /\ last.ator.user \in Staff) =>
        /\ last.outcome = "ok"
        /\ last.info.context.current_status = Spell(C10_Esperado(last.alvo))
        /\ last.info.pets = {id \in DOMAIN pets : pets[id].status = C10_Esperado(last.alvo)}
        /\ \A i \in DOMAIN StatusChoices :
              last.info.context.counts[Lower(Spell(StatusChoices[i]))]
                 = Cardinality({id \in DOMAIN pets : pets[id].status = StatusChoices[i]})

\* C11: the gallery listing and the pet detail are served iff the actor is
\* authenticated or the session has the visitor marker, and no request of
\* an unauthenticated session, with or without the marker, creates,
\* modifies or deletes a pet record or a gallery photo.
C11_VisitorReadOnly ==
    [][/\ last'.op \in {"list", "detail"}
          => ((last'.outcome # "negado")
                 <=> (last'.ator.user \in usuarios \/ last'.ator.is_visitor))
       /\ last'.ator.user \notin usuarios => store' = store]_vars

\* A session that entered as visitor sent a create submission and was
\* refused, the store holding a record.
C11_Witness ==
    /\ last.op = "create" /\ last.outcome = "negado"
    /\ last.ator.user = NULL /\ last.ator.is_visitor
    /\ session.is_visitor
    /\ DOMAIN pets # {}

\* C12: a create or edit submission is rejected for its gallery count iff
\* existing - removed + new exceeds MAX_ADDITIONAL_PHOTOS, removed being the
\* existing photos selected for removal in the same submission.
C12_CountCheck ==
    [][(/\ last'.op \in {"create", "edit"}
        /\ last'.outcome # "negado")
         => LET existing == Cardinality(fotos_extras(fotos, last'.alvo))
                removed == Cardinality(last'.sub.fotos_extras_remover
                                          \cap fotos_extras(fotos, last'.alvo))
                new == Len(last'.sub.fotos_adicionais)
            IN  (last'.outcome = "invalido" /\ "count" \in last'.info)
                   <=> (existing - removed + new > MAX_ADDITIONAL_PHOTOS)]_vars

\* C13: when a create or edit submission is committed, every gallery photo
\* it creates gets an ordem strictly greater than the ordem of every photo
\* that remains on the pet, and the created photos take consecutive ordem
\* values in upload order.
C13_NewPhotosAfterRemaining ==
    [][(/\ last'.op \in {"create", "edit"}
        /\ last'.outcome = "ok")
         => LET pk == last'.alvo
                novas == {f \in DOMAIN fotos' : f >= nextFotoId /\ fotos'[f].pet = pk}
                restantes == {f \in DOMAIN fotos' : f < nextFotoId /\ fotos'[f].pet = pk}
            IN  /\ \A n \in novas, r \in restantes : fotos'[n].ordem > fotos'[r].ordem
                /\ \A n \in novas, m \in novas :
                      m = n + 1 => fotos'[m].ordem = fotos'[n].ordem + 1]_vars

\* C14: an accepted create request that carries k gallery files results in
\* exactly one new pet record with exactly k gallery photos.
C14_CreateAppliesOnce ==
    [][(/\ last'.op = "create"
        /\ last'.outcome = "ok")
         => /\ last'.alvo \notin DOMAIN pets
            /\ DOMAIN pets' = DOMAIN pets \cup {last'.alvo}
            /\ Cardinality(fotos_extras(fotos', last'.alvo))
                  = Len(last'.sub.fotos_adicionais)]_vars

\* C15: an edit, by the owner or by staff, with or without a new nome,
\* leaves the slug and the solicitante of every record as they were; a
\* created record has the acting user as solicitante and leaves the slugs
\* and solicitantes of the other records as they were.
C15_SlugAndSolicitanteKept ==
    [][/\ last'.op \in {"edit", "create"}
          => \A id \in DOMAIN pets :
                /\ id \in DOMAIN pets'
                /\ pets'[id].slug = pets[id].slug
                /\ pets'[id].solicitante = pets[id].solicitante
       /\ (last'.op = "create" /\ last'.outcome = "ok")
          => pets'[last'.alvo].solicitante = last'.ator.user]_vars

\* Staff has just renamed to Luna a record that ana created as Rex: it
\* still has the slug rex and ana as solicitante.
C15_Witness ==
    /\ last.op = "edit" /\ last.outcome = "ok"
    /\ last.ator.user = "staff"
    /\ pets[last.alvo].nome = Luna
    /\ pets[last.alvo].slug = slugify(Rex)
    /\ pets[last.alvo].solicitante = "ana"

====
